---- MODULE Spec2Model ----
(***************************************************************************)
(* The completion engine of queryEditorPanel.js (lwc-soql-builder): the    *)
(* textarea of the SOQL editor, the completion list, and the handlers      *)
(* wired to the textarea's keyup, keydown and blur events and to the click *)
(* on a completion item.                                                   *)
(*                                                                         *)
(* JavaScript strings are sequences of one-character strings; offsets are  *)
(* 0-based as in the source, and SubSeq indices are shifted where a slice  *)
(* is taken.  `undefined` is -1 for this._selectionStart, 0 for the timer  *)
(* handle and FALSE for this._sobjectMeta.                                 *)
(***************************************************************************)
EXTENDS Integers, Sequences, FiniteSets, TLC

VARIABLES
    value,                  \* textarea.value of .soql-input
    selectionStart,         \* textarea.selectionStart
    selectionEnd,           \* textarea.selectionEnd
    isCompletionVisible,    \* this.isCompletionVisible
    completionFields,       \* this.completionFields
    _sobjectMeta,           \* this._sobjectMeta is set (TRUE) or undefined
    _selectionStart,        \* this._selectionStart (the session's boundary)
    _closeCompletionTimer,  \* this._closeCompletionTimer (last timer id)
    timers,                 \* ids of the setTimeout callbacks still pending
    last,                   \* how the handler that ran last ended
    pressed                 \* the key that is down, "" when none is

vars == <<value, selectionStart, selectionEnd, isCompletionVisible,
          completionFields, _sobjectMeta, _selectionStart,
          _closeCompletionTimer, timers, last, pressed>>

----------------------------------------------------------------------------
(* Bounds *)

\* longest text the textarea holds
MaxLen == 2
\* most deferred-close timers pending at once
MaxTimers == 2

----------------------------------------------------------------------------
(* Strings *)

Min(a, b) == IF a < b THEN a ELSE b
Max(a, b) == IF a > b THEN a ELSE b

\* String.prototype.substring(start, end): both arguments are clamped to
\* 0..length (undefined/NaN is 0) and swapped when start > end.
Substring(s, start, end) ==
    LET a == Min(Max(start, 0), Len(s))
        b == Min(Max(end, 0), Len(s))
    IN  SubSeq(s, Min(a, b) + 1, Max(a, b))

\* String.prototype.substring(start): up to the end of the string.
SubstringFrom(s, start) == Substring(s, start, Len(s))

\* The comparison of a pattern without the 'i' flag.
LowerCase_CaseSensitive(c) == c

\* The 'i' flag of the pattern: letters are compared in one case.
LowerCase(c) == IF c = "A" THEN "a" ELSE c

\* The separator class [,. ] of the boundary pattern.
IsSeparator(c) == c \in {",", ".", " "}

----------------------------------------------------------------------------
(* The field catalog: this._sobjectMeta.fields *)

Fields ==
    << [name |-> <<"n", "_", "_", "a">>, label |-> <<>>],
       [name |-> <<"a", "a">>,           label |-> <<"A", "A", "A">>] >>

\* The org's namespace, as stripNamespace knows it.
Namespace == <<"n">>

\* stripNamespace(apiName): the name without its "<namespace>__" prefix.
stripNamespace(apiName) ==
    LET prefix == Namespace \o <<"_", "_">>
    IN  IF /\ Len(apiName) > Len(prefix)
           /\ SubSeq(apiName, 1, Len(prefix)) = prefix
        THEN SubSeq(apiName, Len(prefix) + 1, Len(apiName))
        ELSE apiName

\* escapeRegExp(keyword): every pattern metacharacter gets a backslash; the
\* result is the sequence of atoms of the pattern.
escapeRegExp(keyword) ==
    [i \in 1..Len(keyword) |->
        IF keyword[i] = "." THEN "\\." ELSE keyword[i]]

\* One atom of a pattern against one character, with the 'i' flag.
AtomMatches(atom, c) ==
    CASE atom = "."   -> c # "\n"
      [] atom = "\\." -> c = "."
      [] OTHER        -> LowerCase(atom) = LowerCase(c)

\* new RegExp(pattern, 'i').test(s): the pattern matches somewhere in s.
RegExpTest(pattern, s) ==
    \E off \in 0..(Len(s) - Len(pattern)) :
        \A i \in 1..Len(pattern) : AtomMatches(pattern[i], s[off + i])

----------------------------------------------------------------------------
(* Keyboard events *)

CharKeys == {"a", " ", ",", "."}
NamedKeys == {"Escape", "ArrowLeft", "ArrowRight", "ArrowDown", "ArrowUp",
              "Enter", "Backspace", "Shift"}
Keys == CharKeys \cup NamedKeys

\* key.length
KeyLength(key) == IF key \in CharKeys THEN 1 ELSE 2

\* The KeyboardEvents the handlers are given: a key alone, a key with one
\* of alt, ctrl, meta held, or a key pressed during a composition.
Modifiers ==
    { m \in [altKey : BOOLEAN, ctrlKey : BOOLEAN, metaKey : BOOLEAN] :
        Cardinality({f \in {"altKey", "ctrlKey", "metaKey"} : m[f]}) <= 1 }

Events ==
    { e \in [key : Keys, altKey : BOOLEAN, ctrlKey : BOOLEAN,
             metaKey : BOOLEAN, isComposing : BOOLEAN] :
        /\ [altKey |-> e.altKey, ctrlKey |-> e.ctrlKey,
            metaKey |-> e.metaKey] \in Modifiers
        /\ e.isComposing => ~(e.altKey \/ e.ctrlKey \/ e.metaKey) }

HasModifier(event) == event.altKey \/ event.ctrlKey \/ event.metaKey

----------------------------------------------------------------------------
(* The component's fields and the textarea, as the handlers see them *)

This ==
    [isCompletionVisible |-> isCompletionVisible,
     completionFields    |-> completionFields,
     _sobjectMeta        |-> _sobjectMeta,
     _selectionStart     |-> _selectionStart,
     threw               |-> FALSE]

Target ==
    [value          |-> value,
     selectionStart |-> selectionStart,
     selectionEnd   |-> selectionEnd]

----------------------------------------------------------------------------
(* The methods of QueryEditorPanel *)

\* _canOpenCompletion without its exclusion of space, comma and period.
_canOpenCompletion_AnyCharacter(event) ==
    \/ event.ctrlKey /\ event.key = " "
    \/ /\ KeyLength(event.key) = 1
       /\ ~event.altKey
       /\ ~event.ctrlKey
       /\ ~event.metaKey
       /\ ~event.isComposing
    \/ event.isComposing /\ event.key = "Enter"

\* _canOpenCompletion that takes Enter outside a composition as well.
_canOpenCompletion_AnyEnter(event) ==
    \/ event.ctrlKey /\ event.key = " "
    \/ /\ KeyLength(event.key) = 1
       /\ event.key \notin {" ", ",", "."}
       /\ ~event.altKey
       /\ ~event.ctrlKey
       /\ ~event.metaKey
       /\ ~event.isComposing
    \/ event.key = "Enter"

_canOpenCompletion(event) ==
    \/ event.ctrlKey /\ event.key = " "
    \/ /\ KeyLength(event.key) = 1
       /\ event.key \notin {" ", ",", "."}
       /\ ~event.altKey
       /\ ~event.ctrlKey
       /\ ~event.metaKey
       /\ ~event.isComposing
    \/ event.isComposing /\ event.key = "Enter"

\* _findSeparator with a pattern that matches at the first separator.
_findSeparator_First(v) ==
    IF \E i \in 1..Len(v) : IsSeparator(v[i])
    THEN CHOOSE i \in 1..Len(v) :
            /\ IsSeparator(v[i])
            /\ \A j \in 1..(i - 1) : ~IsSeparator(v[j])
    ELSE 0

\* /[,. ][^,. ]*$/g.exec(v): the match starts at the last separator of v;
\* result.index + 1 is the offset after it, and null (here 0, as falsy as
\* null in `||`) when v holds no separator.
_findSeparator(v) ==
    IF \E i \in 1..Len(v) : IsSeparator(v[i])
    THEN CHOOSE i \in 1..Len(v) :
            /\ IsSeparator(v[i])
            /\ \A j \in (i + 1)..Len(v) : ~IsSeparator(v[j])
    ELSE 0

\* _closeCompletion that leaves the list on screen.
_closeCompletion_Noop(this) == this

_closeCompletion(this) == [this EXCEPT !.isCompletionVisible = FALSE]

\* The filter and map of _searchCompletionFields.
FilterFields(keyword) ==
    LET keywordPattern == escapeRegExp(keyword)
        Matches(field) ==
            RegExpTest(keywordPattern, field.name \o <<" ">> \o field.label)
        found == SelectSeq(Fields, Matches)
    IN  [i \in 1..Len(found) |->
            [name      |-> found[i].name,
             label     |-> found[i].label,
             itemLabel |-> found[i].name \o <<" ", "/", " ">> \o found[i].label,
             isActive  |-> (i - 1) = 0]]

\* _searchCompletionFields that shows the list whatever it holds.
_searchCompletionFields_AlwaysShown(this, target) ==
    LET keyword == Substring(target.value, this._selectionStart,
                             target.selectionEnd)
        fields  == FilterFields(keyword)
    IN  IF ~this._sobjectMeta
        THEN [this EXCEPT !.threw = TRUE]
        ELSE [this EXCEPT !.completionFields = fields,
                          !.isCompletionVisible = TRUE]

\* Reading this._sobjectMeta.fields throws a TypeError while _sobjectMeta is
\* undefined: nothing after it runs.
_searchCompletionFields(this, target) ==
    LET keyword == Substring(target.value, this._selectionStart,
                             target.selectionEnd)
        fields  == FilterFields(keyword)
    IN  IF ~this._sobjectMeta
        THEN [this EXCEPT !.threw = TRUE]
        ELSE [this EXCEPT !.completionFields = fields,
                          !.isCompletionVisible = Len(fields) > 0]

_openCompletion(this, target, event) ==
    LET sep   == _findSeparator(
                    Substring(target.value, 0, target.selectionEnd))
        this1 == [this EXCEPT !._selectionStart =
                    IF sep # 0 THEN sep ELSE target.selectionEnd]
    IN  IF _canOpenCompletion(event)
        THEN _searchCompletionFields(this1, target)
        ELSE this1

\* _deleteKeyword without its comparison of the caret with the boundary.
_deleteKeyword_SearchOnly(this, target) ==
    _searchCompletionFields(this, target)

_deleteKeyword(this, target) ==
    LET this1 == _searchCompletionFields(this, target)
    IN  IF this1._selectionStart = target.selectionStart
        THEN _closeCompletion(this1)
        ELSE this1

\* _handleCompletion with _openCompletion in place of the search of its
\* default branch.
_handleCompletion_Reopen(this, target, event) ==
    LET this1 == IF HasModifier(event) THEN _closeCompletion(this) ELSE this
    IN  CASE event.key \in {".", ",", " ", "Escape", "ArrowLeft", "ArrowRight"}
                -> _closeCompletion(this1)
          [] event.key = "Backspace"
                -> _deleteKeyword(this1, target)
          [] event.key \in {"ArrowDown", "ArrowUp", "Enter"}
                -> IF event.isComposing
                   THEN _searchCompletionFields(this1, target)
                   ELSE this1
          [] OTHER
                -> _openCompletion(this1, target, event)

\* _handleCompletion without the search of ArrowDown, ArrowUp and Enter
\* during a composition.
_handleCompletion_NoRefresh(this, target, event) ==
    LET this1 == IF HasModifier(event) THEN _closeCompletion(this) ELSE this
    IN  CASE event.key \in {".", ",", " ", "Escape", "ArrowLeft", "ArrowRight"}
                -> _closeCompletion(this1)
          [] event.key = "Backspace"
                -> _deleteKeyword(this1, target)
          [] event.key \in {"ArrowDown", "ArrowUp", "Enter"}
                -> this1
          [] OTHER
                -> _searchCompletionFields(this1, target)

\* _handleCompletion that treats the closing keys like any other key.
_handleCompletion_NoCloseKeys(this, target, event) ==
    LET this1 == IF HasModifier(event) THEN _closeCompletion(this) ELSE this
    IN  CASE event.key = "Backspace"
                -> _deleteKeyword(this1, target)
          [] event.key \in {"ArrowDown", "ArrowUp", "Enter"}
                -> IF event.isComposing
                   THEN _searchCompletionFields(this1, target)
                   ELSE this1
          [] OTHER
                -> _searchCompletionFields(this1, target)

\* _handleCompletion that searches on ArrowDown, ArrowUp and Enter outside
\* a composition too.
_handleCompletion_ArrowsRefresh(this, target, event) ==
    LET this1 == IF HasModifier(event) THEN _closeCompletion(this) ELSE this
    IN  CASE event.key \in {".", ",", " ", "Escape", "ArrowLeft", "ArrowRight"}
                -> _closeCompletion(this1)
          [] event.key = "Backspace"
                -> _deleteKeyword(this1, target)
          [] OTHER
                -> _searchCompletionFields(this1, target)

_handleCompletion(this, target, event) ==
    LET this1 == IF HasModifier(event) THEN _closeCompletion(this) ELSE this
    IN  CASE event.key \in {".", ",", " ", "Escape", "ArrowLeft", "ArrowRight"}
                -> _closeCompletion(this1)
          [] event.key = "Backspace"
                -> _deleteKeyword(this1, target)
          [] event.key \in {"ArrowDown", "ArrowUp", "Enter"}
                -> IF event.isComposing
                   THEN _searchCompletionFields(this1, target)
                   ELSE this1
          [] OTHER
                -> _searchCompletionFields(this1, target)

\* findIndex(field => field.isActive): 0-based, -1 when none is active.
_getActiveFieldIndex(fields) ==
    IF \E i \in 1..Len(fields) : fields[i].isActive
    THEN (CHOOSE i \in 1..Len(fields) :
            /\ fields[i].isActive
            /\ \A j \in 1..(i - 1) : ~fields[j].isActive) - 1
    ELSE -1

\* _selectBellowField without its test for the end of the list.
_selectBellowField_PastEnd(this) ==
    LET activeIndex == _getActiveFieldIndex(this.completionFields)
    IN  [this EXCEPT !.completionFields =
            [i \in 1..Len(this.completionFields) |->
                [this.completionFields[i] EXCEPT
                    !.isActive = (i - 1) = activeIndex + 1]]]

_selectBellowField(this) ==
    LET activeIndex == _getActiveFieldIndex(this.completionFields)
    IN  IF activeIndex + 1 < Len(this.completionFields)
        THEN [this EXCEPT !.completionFields =
                [i \in 1..Len(this.completionFields) |->
                    [this.completionFields[i] EXCEPT
                        !.isActive = (i - 1) = activeIndex + 1]]]
        ELSE this

\* _selectAboveField without its test for the start of the list.
_selectAboveField_PastStart(this) ==
    LET activeIndex == _getActiveFieldIndex(this.completionFields)
    IN  [this EXCEPT !.completionFields =
            [i \in 1..Len(this.completionFields) |->
                [this.completionFields[i] EXCEPT
                    !.isActive = (i - 1) = activeIndex - 1]]]

_selectAboveField(this) ==
    LET activeIndex == _getActiveFieldIndex(this.completionFields)
    IN  IF activeIndex > 0
        THEN [this EXCEPT !.completionFields =
                [i \in 1..Len(this.completionFields) |->
                    [this.completionFields[i] EXCEPT
                        !.isActive = (i - 1) = activeIndex - 1]]]
        ELSE this

\* Array.prototype.find: the first of the elements that satisfy the test
\* (`matching`, in the order of the array), as a sequence of one element, or
\* <<>> for undefined.
Find(matching) ==
    IF Len(matching) > 0 THEN <<matching[1]>> ELSE <<>>

\* textarea.setSelectionRange(i, i): offsets past the end are clamped.
SetSelectionRange(textarea, index) ==
    [textarea EXCEPT !.selectionStart = Min(index, Len(textarea.value)),
                     !.selectionEnd   = Min(index, Len(textarea.value))]

\* _insertField(textarea, selectedField): the component and the textarea it
\* leaves.  The setter of soql writes the new text into the textarea.
_insertField(this, textarea, selectedField) ==
    LET soql              == textarea.value
        preSoql           == Substring(soql, 0, this._selectionStart)
        postSoql          == SubstringFrom(soql, textarea.selectionStart)
        strippedFieldName == stripNamespace(selectedField[1].name)
        insertedIndex     == this._selectionStart + Len(strippedFieldName)
    IN  [this     |-> _closeCompletion(this),
         textarea |->
            IF Len(selectedField) > 0
            THEN SetSelectionRange(
                    [textarea EXCEPT
                        !.value = preSoql \o strippedFieldName \o postSoql],
                    insertedIndex)
            ELSE textarea]

_insertFieldByKeyboard(this, target) ==
    _insertField(this, target,
                 Find(SelectSeq(this.completionFields,
                        LAMBDA field : field.isActive)))

----------------------------------------------------------------------------
(* The textarea's own reaction to a key (the default action of keydown) *)

\* The selection replaced by the characters of `text`.
ReplaceSelection(target, text) ==
    [value          |-> Substring(target.value, 0, target.selectionStart)
                            \o text
                            \o SubstringFrom(target.value, target.selectionEnd),
     selectionStart |-> target.selectionStart + Len(text),
     selectionEnd   |-> target.selectionStart + Len(text)]

DefaultAction(target, event) ==
    CASE event.key \in CharKeys /\ ~HasModifier(event)
            -> ReplaceSelection(target, <<event.key>>)
      [] event.key = "Backspace"
            -> IF target.selectionStart < target.selectionEnd
               THEN ReplaceSelection(target, <<>>)
               ELSE ReplaceSelection(
                        [target EXCEPT !.selectionStart =
                            Max(target.selectionStart - 1, 0)], <<>>)
      [] event.key = "ArrowLeft"
            -> LET at == IF target.selectionStart < target.selectionEnd
                         THEN target.selectionStart
                         ELSE Max(target.selectionStart - 1, 0)
               IN  [target EXCEPT !.selectionStart = at, !.selectionEnd = at]
      [] event.key = "ArrowRight"
            -> LET at == IF target.selectionStart < target.selectionEnd
                         THEN target.selectionEnd
                         ELSE Min(target.selectionEnd + 1, Len(target.value))
               IN  [target EXCEPT !.selectionStart = at, !.selectionEnd = at]
      [] OTHER
            -> target

----------------------------------------------------------------------------
(* The event handlers *)

\* What `last` keeps of a handler's run: whether it ended in an exception,
\* and the text it spliced into the textarea (<<>> when it spliced none).
Outcome(this, inserted) ==
    [threw |-> this.threw, inserted |-> inserted]

\* The name _insertFieldByKeyboard inserts, <<>> when no field is active.
ActiveName(this) ==
    LET found == Find(SelectSeq(this.completionFields,
                        LAMBDA field : field.isActive))
    IN  IF Len(found) > 0 THEN stripNamespace(found[1].name) ELSE <<>>

\* handleKeyupSoql(event).  The dispatch of updateSoql changes nothing here:
\* the store hands the same text back to the soql setter.
handleKeyupSoql(event) ==
    LET this == IF ~_sobjectMeta THEN This
                ELSE IF ~isCompletionVisible
                     THEN _openCompletion(This, Target, event)
                     ELSE _handleCompletion(This, Target, event)
    IN  /\ isCompletionVisible' = this.isCompletionVisible
        /\ completionFields' = this.completionFields
        /\ _selectionStart' = this._selectionStart
        /\ last' = Outcome(this, <<>>)
        /\ UNCHANGED <<value, selectionStart, selectionEnd, _sobjectMeta,
                       _closeCompletionTimer, timers>>

\* handleKeydownSoql(event), followed by the key's default action unless the
\* handler called event.preventDefault().
handleKeydownSoql(event) ==
    LET navigates == isCompletionVisible /\ ~event.isComposing
        prevented == navigates /\ event.key \in {"ArrowDown", "ArrowUp", "Enter"}
        inserts   == navigates /\ event.key = "Enter"
        done      == _insertFieldByKeyboard(This, Target)
        this ==
            IF isCompletionVisible
            THEN IF event.isComposing THEN This
                 ELSE CASE event.key = "ArrowDown" -> _selectBellowField(This)
                        [] event.key = "ArrowUp"   -> _selectAboveField(This)
                        [] event.key = "Enter"     -> done.this
                        [] OTHER                   -> This
            ELSE IF event.isComposing /\ event.key = "Enter"
                 THEN _openCompletion(This, Target, event)
                 ELSE This
        handled == IF inserts THEN done.textarea ELSE Target
        target  == IF prevented THEN handled ELSE DefaultAction(handled, event)
    IN  /\ value' = target.value
        /\ selectionStart' = target.selectionStart
        /\ selectionEnd' = target.selectionEnd
        /\ isCompletionVisible' = this.isCompletionVisible
        /\ completionFields' = this.completionFields
        /\ _selectionStart' = this._selectionStart
        /\ last' = Outcome(this, IF inserts THEN ActiveName(This) ELSE <<>>)
        /\ UNCHANGED <<_sobjectMeta, _closeCompletionTimer, timers>>

\* handleBlurSoql(): a new timer, whose id replaces the handle.
handleBlurSoql ==
    /\ LET id == CHOOSE i \in 1..(Cardinality(timers) + 1) :
                    /\ i \notin timers
                    /\ \A j \in 1..(i - 1) : j \in timers
       IN  /\ timers' = timers \cup {id}
           /\ _closeCompletionTimer' = id
    /\ last' = Outcome(This, <<>>)
    /\ UNCHANGED <<value, selectionStart, selectionEnd, isCompletionVisible,
                   completionFields, _sobjectMeta, _selectionStart>>

\* The callback of the timer `id` set by handleBlurSoql: _closeCompletion().
closeCompletionTimeout(id) ==
    /\ id \in timers
    /\ timers' = timers \ {id}
    /\ isCompletionVisible' = _closeCompletion(This).isCompletionVisible
    /\ last' = Outcome(This, <<>>)
    /\ UNCHANGED <<value, selectionStart, selectionEnd, completionFields,
                   _sobjectMeta, _selectionStart, _closeCompletionTimer>>

\* insertField(event): the click on the item of the list that shows the
\* field `name`; the list is on screen while isCompletionVisible.
insertField(name) ==
    /\ isCompletionVisible
    /\ \E i \in 1..Len(completionFields) : completionFields[i].name = name
    /\ LET selectedField ==
                Find(SelectSeq(completionFields,
                                LAMBDA field : field.name = name))
           done == _insertField(This, Target, selectedField)
       IN  /\ timers' = IF _closeCompletionTimer # 0
                        THEN timers \ {_closeCompletionTimer}
                        ELSE timers
           /\ value' = done.textarea.value
           /\ selectionStart' = done.textarea.selectionStart
           /\ selectionEnd' = done.textarea.selectionEnd
           /\ isCompletionVisible' = done.this.isCompletionVisible
           /\ last' = Outcome(This, stripNamespace(name))
    /\ UNCHANGED <<completionFields, _sobjectMeta, _selectionStart,
                   _closeCompletionTimer>>

\* storeChange({ sobject, ui }) once the describe of the queried object has
\* arrived: _sobjectMeta is set; ui.soql is the text the panel already has.
storeChange ==
    /\ ~_sobjectMeta
    /\ _sobjectMeta' = TRUE
    /\ last' = Outcome(This, <<>>)
    /\ UNCHANGED <<value, selectionStart, selectionEnd, isCompletionVisible,
                   completionFields, _selectionStart, _closeCompletionTimer,
                   timers>>

\* The user puts the caret, or a selection, somewhere in the textarea with
\* the pointer: no handler of the component runs.
Select(from, to) ==
    /\ from <= to
    /\ to <= Len(value)
    /\ <<from, to>> # <<selectionStart, selectionEnd>>
    /\ selectionStart' = from
    /\ selectionEnd' = to
    /\ last' = Outcome(This, <<>>)
    /\ UNCHANGED <<value, isCompletionVisible, completionFields, _sobjectMeta,
                   _selectionStart, _closeCompletionTimer, timers>>

----------------------------------------------------------------------------
(* The events the browser delivers *)

\* keydown on the textarea: of a key that is not down yet, or again of the
\* key that is held (auto-repeat).  One key is down at a time.
KeyDown(event) ==
    /\ pressed \in {"", event.key}
    /\ handleKeydownSoql(event)
    /\ pressed' = event.key

\* keyup on the textarea, of the key that is down.
KeyUp(event) ==
    /\ pressed = event.key
    /\ handleKeyupSoql(event)
    /\ pressed' = ""

\* blur of the textarea.
Blur == handleBlurSoql /\ UNCHANGED pressed

\* The timer `id` fires.
Timeout(id) == closeCompletionTimeout(id) /\ UNCHANGED pressed

\* click on the item of the field `name`.
Click(name) == insertField(name) /\ UNCHANGED pressed

\* The store announces the metadata of the queried object.
Loaded == storeChange /\ UNCHANGED pressed

\* The pointer moves the caret or selects text.
Pointer(from, to) == Select(from, to) /\ UNCHANGED pressed

----------------------------------------------------------------------------
(* The specification *)

Init ==
    /\ value = <<>>
    /\ selectionStart = 0
    /\ selectionEnd = 0
    /\ isCompletionVisible = FALSE
    /\ completionFields = <<>>
    /\ _sobjectMeta = FALSE
    /\ _selectionStart = -1
    /\ _closeCompletionTimer = 0
    /\ timers = {}
    /\ last = [threw |-> FALSE, inserted |-> <<>>]
    /\ pressed = ""

\* Every event, for as long as the text stays within MaxLen characters and
\* at most MaxTimers timers are pending.
Next ==
    \/ \E event \in Events : KeyUp(event)
    \/ \E event \in Events : KeyDown(event) /\ Len(value') <= MaxLen
    \/ Cardinality(timers) < MaxTimers /\ Blur
    \/ \E id \in timers : Timeout(id)
    \/ \E i \in 1..Len(Fields) : Click(Fields[i].name) /\ Len(value') <= MaxLen
    \/ Loaded
    \/ \E from \in 0..Len(value), to \in 0..Len(value) : Pointer(from, to)

Spec == Init /\ [][Next]_vars

\* A timer that is set fires, unless clearTimeout cancels it first: the
\* event loop runs the callback of setTimeout once its 100 ms are over.
TimerFires == \E id \in timers : Timeout(id)

SpecFair == Spec /\ WF_vars(TimerFires)

----------------------------------------------------------------------------
(* The splice of _insertField on its own: every text, caret, boundary and  *)
(* candidate list of an open session, and the two ways to choose a field.  *)

\* The texts of at most n characters a user can type.
Texts(n) == UNION { [1..k -> CharKeys] : k \in 0..n }

\* this.completionFields after ArrowDown was pressed `times` times.
RECURSIVE Moved(_, _)
Moved(this, times) ==
    IF times = 0 THEN this ELSE Moved(_selectBellowField(this), times - 1)

KeyEvent(key) ==
    [key |-> key, altKey |-> FALSE, ctrlKey |-> FALSE, metaKey |-> FALSE,
     isComposing |-> FALSE]

InitInsert ==
    /\ value \in Texts(MaxLen)
    /\ selectionStart \in 0..Len(value)
    /\ selectionEnd \in selectionStart..Len(value)
    /\ _selectionStart \in 0..MaxLen
    /\ isCompletionVisible = TRUE
    /\ \E times \in 0..(Len(Fields) - 1) :
            completionFields =
                Moved([completionFields |-> FilterFields(<<>>)],
                      times).completionFields
    /\ _sobjectMeta = TRUE
    /\ _closeCompletionTimer = 0
    /\ timers = {}
    /\ last = [threw |-> FALSE, inserted |-> <<>>]
    /\ pressed = ""

NextInsert ==
    \/ KeyDown(KeyEvent("Enter"))
    \/ \E i \in 1..Len(Fields) : Click(Fields[i].name)

SpecInsert == InitInsert /\ [][NextInsert]_vars

----------------------------------------------------------------------------
(* The search of _searchCompletionFields and the boundary of             *)
(* _openCompletion on their own: every text of at most MaxKeyword         *)
(* characters, with the caret and the boundary anywhere in it, and a      *)
(* key-up that searches (a letter, or any key without a rule of its own   *)
(* while the list is shown).                                              *)

\* longest text of the searches
MaxKeyword == 3

\* The characters of these texts: letters in both cases, the underscore of
\* the API names, and the three separators.
SearchChars == {"a", "A", "_", ".", ",", " "}

SearchTexts == UNION { [1..k -> SearchChars] : k \in 0..MaxKeyword }

InitSearch ==
    /\ value \in SearchTexts
    /\ selectionEnd \in 0..Len(value)
    /\ selectionStart = selectionEnd
    /\ isCompletionVisible \in BOOLEAN
    /\ _selectionStart \in (IF isCompletionVisible THEN 0..Len(value) ELSE {-1})
    /\ completionFields = (IF isCompletionVisible THEN FilterFields(<<>>) ELSE <<>>)
    /\ _sobjectMeta = TRUE
    /\ _closeCompletionTimer = 0
    /\ timers = {}
    /\ last = [threw |-> FALSE, inserted |-> <<>>]
    /\ pressed \in {"a", "Shift"}

NextSearch == \E key \in {"a", "Shift"} : KeyUp(KeyEvent(key))

SpecSearch == InitSearch /\ [][NextSearch]_vars

----------------------------------------------------------------------------
(* The moves of _selectBellowField and _selectAboveField on their own:    *)
(* every list the filter can leave, with any one candidate active or with *)
(* none (findIndex gives -1), and the presses of ArrowDown and ArrowUp.   *)

\* The candidates of the catalog entries `picked`, in catalog order, with
\* the one at the 0-based index `activeIndex` active.
Candidates(picked, activeIndex) ==
    LET found == SelectSeq([i \in 1..Len(Fields) |-> i], LAMBDA i : i \in picked)
    IN  [i \in 1..Len(found) |->
            [name      |-> Fields[found[i]].name,
             label     |-> Fields[found[i]].label,
             itemLabel |-> Fields[found[i]].name \o <<" ", "/", " ">>
                                \o Fields[found[i]].label,
             isActive  |-> (i - 1) = activeIndex]]

InitSelect ==
    /\ value \in Texts(MaxLen)
    /\ selectionEnd \in 0..Len(value)
    /\ selectionStart = selectionEnd
    /\ _selectionStart \in 0..Len(value)
    /\ isCompletionVisible = TRUE
    /\ \E picked \in SUBSET (1..Len(Fields)) :
         \E activeIndex \in -1..(Cardinality(picked) - 1) :
            completionFields = Candidates(picked, activeIndex)
    /\ _sobjectMeta = TRUE
    /\ _closeCompletionTimer = 0
    /\ timers = {}
    /\ last = [threw |-> FALSE, inserted |-> <<>>]
    /\ pressed = ""

NextSelect ==
    \E key \in {"ArrowDown", "ArrowUp"} :
        \/ KeyDown(KeyEvent(key))
        \/ KeyUp(KeyEvent(key))

SpecSelect == InitSelect /\ [][NextSelect]_vars

----------------------------------------------------------------------------
(* Properties *)

ActiveIndices == { i \in 1..Len(completionFields) : completionFields[i].isActive }

ModifierEvents == { e \in Events : HasModifier(e) }

BackspaceEvents == { e \in Events : e.key = "Backspace" }

\* C1: after an insertion (Enter on the active candidate, or a click on an
\* item) the caret is at boundary + length(stripped name), which is where
\* the inserted name ends in the new text, and not past the end of the text.
C1_CaretAtEndOfInsertedToken ==
    last.inserted # <<>> =>
        /\ selectionStart = _selectionStart + Len(last.inserted)
        /\ selectionEnd = selectionStart
        /\ selectionStart <= Len(value)
        /\ SubSeq(value, _selectionStart + 1, selectionStart) = last.inserted

\* C2: whenever the candidate list is non-empty, exactly one candidate is
\* active.
C2_ExactlyOneActive ==
    Len(completionFields) > 0 => Cardinality(ActiveIndices) = 1

\* C2 witness: an open list whose active candidate was moved to the last
\* item.
C2_Witness ==
    /\ isCompletionVisible
    /\ Len(completionFields) > 1
    /\ ActiveIndices = {Len(completionFields)}

\* C3: while Open, a key-up with alt, ctrl or meta held leaves the session
\* Closed, whatever the key.
C3_ModifierKeyupCloses ==
    [][(isCompletionVisible /\ pressed # "" /\ pressed' = "") =>
        \A e \in ModifierEvents : KeyUp(e) => ~isCompletionVisible']_vars

\* C4: while the object's metadata is not loaded, no key-down and no key-up
\* opens a session or ends in an exception.
C4_NoCatalogNoError ==
    ~_sobjectMeta => (~isCompletionVisible /\ ~last.threw)

\* C5: a key-down or key-up after a loss of focus cancels the deferred
\* close: no timer set before it is pending once its handler has run.
C5_KeyboardCancelsDeferredClose ==
    [][timers # {} =>
        \A e \in Events : (KeyUp(e) \/ KeyDown(e)) => timers' = {}]_vars

\* C6: a click on a candidate cancels the deferred close: no timer set by
\* an earlier loss of focus is pending once insertField has run.
C6_PointerCancelsDeferredClose ==
    [][timers # {} =>
        \A i \in 1..Len(Fields) : Click(Fields[i].name) => timers' = {}]_vars

\* C7: an insertion of the stripped name n at boundary b with the caret at
\* s turns the text T into T[0:b] + n + T[s:], so that the first b + len(n)
\* characters of the new text are T[0:b] + n.
C7_InsertSplices ==
    [][last'.inserted # <<>> =>
        LET n == last'.inserted
            b == _selectionStart
        IN  /\ value' = Substring(value, 0, b) \o n
                            \o SubstringFrom(value, selectionStart)
            /\ Substring(value', 0, b + Len(n)) = Substring(value, 0, b) \o n
      ]_vars

\* C8: the boundary does not change while a session stays Open.
C8_BoundaryFixedWhileOpen ==
    [][(isCompletionVisible /\ isCompletionVisible') =>
        _selectionStart' = _selectionStart]_vars

\* C8 witness: an Open session whose boundary is no longer the one a session
\* opened at the present caret would get.
C8_Witness ==
    /\ isCompletionVisible
    /\ _selectionStart #
            _openCompletion(This, Target, KeyEvent("Shift"))._selectionStart

\* What a Backspace key-up recomputes in an Open session.
Refreshed == FilterFields(Substring(value, _selectionStart, selectionEnd))

\* C9 as stated: while Open, a Backspace key-up refreshes the candidates at
\* the unchanged boundary, and the session is Closed if the caret is at the
\* boundary and Open otherwise.
C9_BackspaceClosesOnlyAtBoundary ==
    [][(isCompletionVisible /\ pressed = "Backspace" /\ pressed' = "") =>
        \A e \in BackspaceEvents :
            KeyUp(e) =>
                /\ _selectionStart' = _selectionStart
                /\ completionFields' = Refreshed
                /\ isCompletionVisible' <=> selectionStart # _selectionStart
      ]_vars

\* C9 amended: while Open, a Backspace key-up refreshes the candidates at
\* the unchanged boundary; the session is Closed if the caret is at the
\* boundary or no candidate is left, and Open otherwise.
C9_BackspaceClosesAtBoundaryOrEmpty ==
    [][(isCompletionVisible /\ pressed = "Backspace" /\ pressed' = "") =>
        \A e \in BackspaceEvents :
            KeyUp(e) =>
                /\ _selectionStart' = _selectionStart
                /\ completionFields' = Refreshed
                /\ isCompletionVisible' <=>
                        (selectionStart # _selectionStart /\ Len(Refreshed) > 0)
      ]_vars

\* C9 witness: Backspace is down in an Open session, the caret is back at
\* the boundary with candidates left, and the key-up closes the session.
C9_Witness ==
    /\ isCompletionVisible
    /\ pressed = "Backspace"
    /\ selectionStart = _selectionStart
    /\ Len(Refreshed) > 0
    /\ ENABLED (KeyUp(KeyEvent("Backspace")) /\ ~isCompletionVisible')

\* shouldOpen of the design: ctrl with space, or a single character other
\* than space, comma, period with no modifier and outside a composition, or
\* Enter during a composition.
ShouldOpen(e) ==
    \/ e.ctrlKey /\ e.key = " "
    \/ /\ e.key \in CharKeys \ {" ", ",", "."}
       /\ ~HasModifier(e)
       /\ ~e.isComposing
    \/ e.isComposing /\ e.key = "Enter"

\* C10: a step from Closed to Open is the handling of a key event for which
\* shouldOpen holds.
C10_OpensOnlyIfShouldOpen ==
    [][(~isCompletionVisible /\ isCompletionVisible') =>
        /\ \A e \in Events : (KeyUp(e) \/ KeyDown(e)) => ShouldOpen(e)
        /\ \E e \in Events : KeyUp(e) \/ KeyDown(e)
      ]_vars

\* C10 witness: a letter is down in a Closed session, and its key-up opens
\* the session.
C10_Witness ==
    /\ ~isCompletionVisible
    /\ pressed = "a"
    /\ ENABLED (KeyUp(KeyEvent("a")) /\ isCompletionVisible')

\* The same character, or the same letter in its two cases.
SameIgnoringCase(c, d) == c = d \/ {c, d} = {"a", "A"}

\* s contains k as a literal substring, letters compared without their case.
ContainsIgnoreCase(s, k) ==
    \E off \in 0..(Len(s) - Len(k)) :
        \A i \in 1..Len(k) : SameIgnoringCase(s[off + i], k[i])

\* The catalog entries whose "<name> <label>" contains k, in catalog order.
Matching(k) ==
    SelectSeq(Fields,
              LAMBDA f : ContainsIgnoreCase(f.name \o <<" ">> \o f.label, k))

\* C11: a search leaves as candidates exactly the catalog entries whose
\* "<name> <label>" contains the keyword as a literal, case-insensitive
\* substring, in catalog order, active at index 0 only; the empty keyword
\* leaves every entry.
C11_FilterIsLiteralSubstringMatch ==
    [][(isCompletionVisible \/ pressed = "a") =>
        LET keyword == Substring(value, _selectionStart', selectionEnd)
            expect  == Matching(keyword)
        IN  /\ Len(completionFields') = Len(expect)
            /\ \A i \in 1..Len(expect) :
                    /\ completionFields'[i].name = expect[i].name
                    /\ completionFields'[i].label = expect[i].label
                    /\ completionFields'[i].isActive = (i = 1)
            /\ keyword = <<>> => Len(completionFields') = Len(Fields)
      ]_vars

\* C11 witness: a search for "Aa" has left the one entry it matches, by the
\* letters of its name in the other case.
C11_Witness ==
    /\ pressed = ""
    /\ isCompletionVisible
    /\ Substring(value, _selectionStart, selectionEnd) = <<"A", "a">>
    /\ Len(completionFields) = 1
    /\ completionFields[1].name = <<"a", "a">>

\* C12: after a loss of focus the session is eventually Closed, whatever
\* events come before the deferred close: while a timer set by a blur is
\* pending, a state with the session Closed lies ahead.
C12_BlurEventuallyCloses ==
    (timers # {}) ~> ~isCompletionVisible

\* C12 witness: the focus was lost while the session is Open, and the timer
\* has not fired yet.
C12_Witness ==
    /\ isCompletionVisible
    /\ timers # {}

\* The candidates are those of before, and the one at index j is the only
\* active one.
ActiveMovedTo(j) ==
    /\ Len(completionFields') = Len(completionFields)
    /\ \A i \in 1..Len(completionFields) :
            /\ completionFields'[i].name = completionFields[i].name
            /\ completionFields'[i].label = completionFields[i].label
            /\ completionFields'[i].isActive = (i = j)

\* C13: the moves do not wrap.  A press of ArrowDown with the last
\* candidate active, and a press of ArrowUp with the first candidate or no
\* candidate active, leave the list as it is; any other press of ArrowDown
\* moves the one active flag from i to i + 1, and of ArrowUp from i to i - 1.
C13_SelectionDoesNotWrap ==
    [][isCompletionVisible =>
        LET n == Len(completionFields)
        IN  /\ pressed' = "ArrowDown" =>
                /\ ActiveIndices = {n} => completionFields' = completionFields
                /\ \A i \in 1..(n - 1) :
                        ActiveIndices = {i} => ActiveMovedTo(i + 1)
            /\ pressed' = "ArrowUp" =>
                /\ (ActiveIndices = {1} \/ ActiveIndices = {}) =>
                        completionFields' = completionFields
                /\ \A i \in 2..n :
                        ActiveIndices = {i} => ActiveMovedTo(i - 1)
      ]_vars

\* C13 witness: ArrowDown is held with the last of several candidates
\* active, where the next press of it (the key repeats) moves nothing.
C13_Witness ==
    /\ isCompletionVisible
    /\ pressed = "ArrowDown"
    /\ Len(completionFields) > 1
    /\ ActiveIndices = {Len(completionFields)}
    /\ ENABLED (KeyDown(KeyEvent("ArrowDown")) /\ UNCHANGED completionFields)

\* The 0-based offsets after the separators of the text before the caret.
OffsetsAfterSeparators ==
    { i \in 1..selectionEnd : value[i] \in {" ", ",", "."} }

\* C14: a key-up in a Closed session sets the boundary to the offset after
\* the last separator before the caret, so that no separator lies between
\* the boundary and the caret, and to the caret itself when no separator
\* lies before the caret.
C14_BoundaryAfterLastSeparator ==
    [][(~isCompletionVisible /\ pressed # "" /\ pressed' = "") =>
        IF OffsetsAfterSeparators = {}
        THEN _selectionStart' = selectionEnd
        ELSE /\ _selectionStart' \in OffsetsAfterSeparators
             /\ \A i \in OffsetsAfterSeparators : i <= _selectionStart'
             /\ \A i \in (_selectionStart' + 1)..selectionEnd :
                    value[i] \notin {" ", ",", "."}
      ]_vars

\* C14 witness: a session opened with the caret at the end of "a,a" has its
\* boundary after the comma.
C14_Witness ==
    /\ isCompletionVisible
    /\ pressed = ""
    /\ value = <<"a", ",", "a">>
    /\ selectionEnd = 3
    /\ _selectionStart = 2

\* C15: whenever the session is Open the candidate list is non-empty.
C15_OpenHasCandidates ==
    isCompletionVisible => Len(completionFields) > 0

\* C15 witness: a key is down in an Open session, and its key-up searches,
\* finds no candidate and leaves the session Closed with the empty list.
C15_Witness ==
    /\ isCompletionVisible
    /\ \E key \in Keys :
        /\ pressed = key
        /\ ENABLED (/\ KeyUp(KeyEvent(key))
                    /\ completionFields' = <<>>
                    /\ ~isCompletionVisible')

NavigationKeys == {"ArrowDown", "ArrowUp", "Enter"}

\* The event of `key` pressed or released during a composition.
ComposingEvent(key) == [KeyEvent(key) EXCEPT !.isComposing = TRUE]

\* C16 amended: while Open, the key-down of ArrowDown, ArrowUp or Enter
\* during a composition changes neither the text, the caret, the list, its
\* active candidate, the boundary nor the state, and inserts nothing; the
\* key-up inserts nothing, keeps the text and the boundary, and leaves the
\* candidates recomputed for the keyword at that boundary (the first of
\* them active), Closed when none is left.
C16_ComposingNavigationKeysOnlyRefresh ==
    [][(isCompletionVisible /\ {pressed, pressed'} \cap NavigationKeys # {})
            =>
        \A key \in NavigationKeys :
            /\ KeyDown(ComposingEvent(key)) =>
                /\ UNCHANGED <<value, selectionStart, selectionEnd,
                               isCompletionVisible, completionFields,
                               _selectionStart>>
                /\ last'.inserted = <<>>
            /\ KeyUp(ComposingEvent(key)) =>
                /\ UNCHANGED <<value, selectionStart, selectionEnd,
                               _selectionStart>>
                /\ last'.inserted = <<>>
                /\ completionFields' = Refreshed
                /\ isCompletionVisible' = (Len(Refreshed) > 0)
      ]_vars

\* The names of the active candidates of a list.
ActiveNames(fields) ==
    { fields[i].name : i \in { j \in 1..Len(fields) : fields[j].isActive } }

\* C16 as stated: what the amended statement says, and the key-up, like
\* the key-down, leaves the active candidate the one it was.
C16_ComposingNavigationKeysKeepActive ==
    [][(isCompletionVisible /\ {pressed, pressed'} \cap NavigationKeys # {})
            =>
        \A key \in NavigationKeys :
            /\ KeyDown(ComposingEvent(key)) =>
                /\ UNCHANGED <<value, selectionStart, selectionEnd,
                               isCompletionVisible, completionFields,
                               _selectionStart>>
                /\ last'.inserted = <<>>
            /\ KeyUp(ComposingEvent(key)) =>
                /\ UNCHANGED <<value, selectionStart, selectionEnd,
                               _selectionStart>>
                /\ last'.inserted = <<>>
                /\ completionFields' = Refreshed
                /\ isCompletionVisible' =>
                        ActiveNames(completionFields')
                            = ActiveNames(completionFields)
      ]_vars

\* C16 witness: Enter is down in a session that is still Open with its
\* second candidate active: the session was Open when Enter went down, and
\* the key-down, made during a composition, inserted and moved nothing.
C16_Witness ==
    /\ isCompletionVisible
    /\ pressed = "Enter"
    /\ ActiveIndices = {2}
    /\ last.inserted = <<>>

\* The events of Enter outside a composition.
PlainEnterEvents == { e \in Events : e.key = "Enter" /\ ~e.isComposing }

\* C17: while Open, a key-down of Enter outside a composition splices the
\* stripped name of the active candidate into the text and leaves the
\* session Closed; and a key-up of Enter outside a composition leaves a
\* Closed session Closed, so the Enter that inserted does not reopen it.
C17_EnterInsertsAndStaysClosed ==
    [][/\ (isCompletionVisible /\ pressed' = "Enter") =>
            \A e \in PlainEnterEvents :
                KeyDown(e) =>
                    /\ last'.inserted = ActiveName(This)
                    /\ last'.inserted # <<>>
                    /\ value' = Substring(value, 0, _selectionStart)
                                    \o ActiveName(This)
                                    \o SubstringFrom(value, selectionStart)
                    /\ ~isCompletionVisible'
       /\ (~isCompletionVisible /\ pressed = "Enter" /\ pressed' = "") =>
            \A e \in PlainEnterEvents :
                KeyUp(e) => ~isCompletionVisible'
      ]_vars

\* C17 witness: the Enter that is down has just inserted a candidate and
\* closed the session; its key-up is still to come.
C17_Witness ==
    /\ pressed = "Enter"
    /\ last.inserted # <<>>
    /\ ~isCompletionVisible
    /\ ENABLED KeyUp(KeyEvent("Enter"))

\* The keys whose key-up closes the session.
CloseKeys == {".", ",", " ", "Escape", "ArrowLeft", "ArrowRight"}

\* C18: while Open, a key-up of period, comma, space, Escape, ArrowLeft or
\* ArrowRight leaves the session Closed, with the candidate list and the
\* boundary it had.
C18_CloseKeysClose ==
    [][(isCompletionVisible /\ pressed \in CloseKeys /\ pressed' = "") =>
        \A e \in { ev \in Events : ev.key = pressed } :
            KeyUp(e) =>
                /\ ~isCompletionVisible'
                /\ completionFields' = completionFields
                /\ _selectionStart' = _selectionStart
      ]_vars

\* C18 witness: a period is down in an Open session, typed after the first
\* letter of a keyword that matches a candidate.
C18_Witness ==
    /\ isCompletionVisible
    /\ pressed = "."
    /\ _selectionStart < selectionStart
    /\ ENABLED (KeyUp(KeyEvent(".")) /\ ~isCompletionVisible')

\* C19: while Open, the key-up of ArrowDown or ArrowUp, outside a
\* composition and with no modifier held, changes neither the state, the
\* candidate list, its active candidate nor the boundary.
C19_ArrowKeyupChangesNothing ==
    [][(isCompletionVisible /\ pressed \in {"ArrowDown", "ArrowUp"}
                            /\ pressed' = "") =>
        (KeyUp(KeyEvent(pressed)) =>
            UNCHANGED <<isCompletionVisible, completionFields,
                        _selectionStart>>)
      ]_vars

\* C19 witness: ArrowDown is down and has moved the active flag to the
\* second candidate; its key-up leaves the flag there.
C19_Witness ==
    /\ isCompletionVisible
    /\ pressed = "ArrowDown"
    /\ ActiveIndices = {2}
    /\ ENABLED (/\ KeyUp(KeyEvent("ArrowDown"))
                /\ isCompletionVisible'
                /\ completionFields' = completionFields)

\* C20: in every state in which the session is Open, 0 <= boundary <=
\* caret <= length of the text.  It is stated for the states between the
\* presses of keys (no key is down), where every handler of the last key
\* has run (a session that is kept Open is Open in such a state), and in
\* which no text is selected, so that the caret is one offset.
C20_BoundaryCaretOrderedWhileOpen ==
    (isCompletionVisible /\ pressed = "" /\ selectionStart = selectionEnd) =>
        /\ 0 <= _selectionStart
        /\ _selectionStart <= selectionStart
        /\ selectionStart <= Len(value)

====
